---- MODULE Spec2Model ----
(***************************************************************************)
(* The installer wizard screens of tui/python/notcurses_components.py.     *)
(* One screen object is constructed (Init) and its show() method runs      *)
(* until it returns.  Input events queue up in the terminal library and    *)
(* are read one at a time by BaseScreen.wait_for_key.                      *)
(***************************************************************************)
EXTENDS Integers, Sequences, FiniteSets, TLC

\* ---------------------------------------------------------------- bounds
\* number of device identifiers the external collaborator may report
NumDevs == 2
\* number of input events the terminal library may hold unread
MaxPending == 1

\* ------------------------------------------------------------ vocabulary
AllDevNames == <<"sda", "sdb", "sdc", "sdd", "sde">>

DevNames == SubSeq(AllDevNames, 1, IF NumDevs < Len(AllDevNames) THEN NumDevs ELSE Len(AllDevNames))

DevIds == {DevNames[i] : i \in 1..Len(DevNames)}

\* key identifiers an event can carry; "x" stands for a key no screen binds
Keys == {"\n", "\r", " ", "j", "down", "k", "up", "escape", "q", "Q", "y", "Y", "n", "N", "x"}

\* an event object without an `id` attribute
NoId == "<no id>"

\* keys whose release events are enumerated
ReleasedKeys == {"\n", "q", " ", "y"}

Events == [is_release : {FALSE}, id : Keys \cup {NoId}] \cup [is_release : {TRUE}, id : ReleasedKeys]

\* the local variable `key` before its first assignment
Unset == "<unset>"

Screens == {"Welcome", "ModeSelection", "DeviceSelection", "Settings", "Validation", "Confirmation", "Installation", "Completion"}

VARIABLES screen, pc, result, key, pending, selected, devices, selected_drives, cursor, device_list, run

vars == <<screen, pc, result, key, pending, selected, devices, selected_drives, cursor, device_list, run>>

\* ------------------------------------------------------------- helpers
modes == << <<"new", "New Installation", "Install ZFS on empty drives (DESTROYS data)">>, <<"existing", "Migrate System", "Copy running system to new ZFS installation">> >>

\* BaseScreen.wait_for_key applied to the event getc_blocking delivered
wait_for_key(ev) == IF ev.is_release THEN "" ELSE IF ev.id # NoId THEN ev.id ELSE ""

\* str.lower on the key identifiers
lower(k) == CASE k = "Q" -> "q" [] k = "Y" -> "y" [] k = "N" -> "n" [] OTHER -> k

\* C-style remainder: keeps the sign of the dividend
TruncMod(a, n) == IF a < 0 THEN 0 - ((0 - a) % n) ELSE a % n

\* Python's % : the result has the sign of the (positive) divisor
PyMod(a, n) == a % n

\* a down key that stops at the last entry
NextClamped(c, n) == IF c + 1 >= n THEN c ELSE c + 1

\* (index + 1) % len(list)
NextIndex(c, n) == PyMod(c + 1, n)

\* (index - 1) % len(list)
PrevIndex(c, n) == PyMod(c - 1, n)

NoResult == [type |-> "none", str |-> "", list |-> <<>>]

StrResult(s) == [type |-> "str", str |-> s, list |-> <<>>]

ListResult(l) == [type |-> "list", str |-> "", list |-> l]

\* the orders list(a_set) can produce
Orderings(S) == {f \in [1..Cardinality(S) -> S] : \A i, j \in 1..Cardinality(S) : f[i] = f[j] => i = j}

\* sorted(devices.keys()), strings ordered as in AllDevNames
sorted(S) == SelectSeq(AllDevNames, LAMBDA d : d \in S)

\* set(a_list)
set(l) == {l[i] : i \in 1..Len(l)}

BoundedSeq(S, n) == UNION {[1..m -> S] : m \in 0..n}

DevInfo(d) == [size_bytes |-> 0, model |-> d, type |-> "disk"]

NoRun == [kind |-> "other", len |-> 0, cursor |-> 0, sel |-> {}]

\* ------------------------------------------------- keys read by a screen
\* the kind of key a run of identical presses is made of
KeyClass(k) == IF k \in {"j", "down"} THEN "down" ELSE IF k \in {"k", "up"} THEN "up" ELSE IF k = " " THEN "space" ELSE "other"

\* the current run of consecutive down, up or SPACE keys handled by the
\* loop, with the cursor and selection the run started from; a run of nav
\* keys is counted up to the list length n, a run of SPACE up to two
RunAfter(r, k, c, s, n) == LET cls == KeyClass(k)
                               cap == IF cls = "space" THEN 2 ELSE n
                           IN  IF cls = "other" THEN NoRun
                               ELSE IF r.kind = cls /\ r.len > 0 /\ r.len < cap THEN [r EXCEPT !.len = @ + 1]
                               ELSE [kind |-> cls, len |-> 1, cursor |-> c, sel |-> s]

\* --------------------------------------------------- ModeSelectionScreen
\* a return of the whole mode tuple instead of its identifier
ModeReturnTuple(sel) == ListResult(modes[sel + 1])

\* return self.modes[self.selected][0]
ModeReturn(sel) == StrResult(modes[sel + 1][1])

\* the if/elif chain of ModeSelectionScreen.show for one key
ModeHandle(sel, k) == IF k = "\n" \/ k = "\r" THEN [selected |-> sel, ret |-> ModeReturn(sel)]
                      ELSE IF k \in {"j", "down"} THEN [selected |-> NextIndex(sel, Len(modes)), ret |-> NoResult]
                      ELSE IF k \in {"k", "up"} THEN [selected |-> PrevIndex(sel, Len(modes)), ret |-> NoResult]
                      ELSE IF k = "escape" THEN [selected |-> sel, ret |-> StrResult("back")]
                      ELSE IF lower(k) = "q" THEN [selected |-> sel, ret |-> StrResult("quit")]
                      ELSE [selected |-> sel, ret |-> NoResult]

\* ------------------------------------------------- DeviceSelectionScreen
\* a toggle that can only select
ToggleAddOnly(sel, dev) == sel \cup {dev}

\* remove dev if selected, add it otherwise
Toggle(sel, dev) == IF dev \in sel THEN sel \ {dev} ELSE sel \cup {dev}

\* a lookup that ignores the cursor
CursorDevFirst(list, c) == list[1]

\* dev = self.device_list[self.cursor]
CursorDev(list, c) == list[c + 1]

\* a continue that is never blocked
ContinueAlways(sel) == TRUE

\* len(self.selected_drives) > 0
ContinueAllowed(sel) == Cardinality(sel) > 0

DevOut(st, c, s, r) == [cursor |-> c, selected_drives |-> s, devices |-> st.devices, device_list |-> st.device_list, ret |-> r]

\* a handler whose SPACE also moves the cursor to the next entry
DeviceHandleAdvance(st, k) == IF k = "\n" \/ k = "\r" THEN (IF ContinueAllowed(st.selected_drives) THEN DevOut(st, st.cursor, st.selected_drives, "drives") ELSE DevOut(st, st.cursor, st.selected_drives, "none"))
                              ELSE IF k = " " THEN (IF st.device_list # <<>> THEN DevOut(st, NextIndex(st.cursor, Len(st.device_list)), Toggle(st.selected_drives, CursorDev(st.device_list, st.cursor)), "none") ELSE DevOut(st, st.cursor, st.selected_drives, "none"))
                              ELSE IF k \in {"j", "down"} THEN (IF st.device_list # <<>> THEN DevOut(st, NextIndex(st.cursor, Len(st.device_list)), st.selected_drives, "none") ELSE DevOut(st, st.cursor, st.selected_drives, "none"))
                              ELSE IF k \in {"k", "up"} THEN (IF st.device_list # <<>> THEN DevOut(st, PrevIndex(st.cursor, Len(st.device_list)), st.selected_drives, "none") ELSE DevOut(st, st.cursor, st.selected_drives, "none"))
                              ELSE IF k = "escape" THEN DevOut(st, st.cursor, st.selected_drives, "back")
                              ELSE IF lower(k) = "q" THEN DevOut(st, st.cursor, st.selected_drives, "quit")
                              ELSE DevOut(st, st.cursor, st.selected_drives, "none")

\* the if/elif chain of DeviceSelectionScreen.show for one key; ret is
\* "drives" for the return of list(self.selected_drives)
DeviceHandle(st, k) == IF k = "\n" \/ k = "\r" THEN (IF ContinueAllowed(st.selected_drives) THEN DevOut(st, st.cursor, st.selected_drives, "drives") ELSE DevOut(st, st.cursor, st.selected_drives, "none"))
                       ELSE IF k = " " THEN (IF st.device_list # <<>> THEN DevOut(st, st.cursor, Toggle(st.selected_drives, CursorDev(st.device_list, st.cursor)), "none") ELSE DevOut(st, st.cursor, st.selected_drives, "none"))
                       ELSE IF k \in {"j", "down"} THEN (IF st.device_list # <<>> THEN DevOut(st, NextIndex(st.cursor, Len(st.device_list)), st.selected_drives, "none") ELSE DevOut(st, st.cursor, st.selected_drives, "none"))
                       ELSE IF k \in {"k", "up"} THEN (IF st.device_list # <<>> THEN DevOut(st, PrevIndex(st.cursor, Len(st.device_list)), st.selected_drives, "none") ELSE DevOut(st, st.cursor, st.selected_drives, "none"))
                       ELSE IF k = "escape" THEN DevOut(st, st.cursor, st.selected_drives, "back")
                       ELSE IF lower(k) = "q" THEN DevOut(st, st.cursor, st.selected_drives, "quit")
                       ELSE DevOut(st, st.cursor, st.selected_drives, "none")

\* --------------------------------------------------------- construction
\* the attributes a screen other than DeviceSelectionScreen does not have
NoDeviceState == /\ devices = [d \in {} |-> DevInfo(d)]
                 /\ selected_drives = {}
                 /\ cursor = 0
                 /\ device_list = <<>>

\* DeviceSelectionScreen.__init__ for a devices mapping and a drive list
DeviceSelectionScreen_init(devs, drives) == /\ devices = devs
                                            /\ selected_drives = set(drives)
                                            /\ cursor = 0
                                            /\ device_list = sorted(DOMAIN devs)

Init == /\ screen \in Screens
        /\ pc = "show"
        /\ result = NoResult
        /\ key = Unset
        /\ pending = <<>>
        /\ selected = 0
        /\ run = NoRun
        /\ IF screen = "DeviceSelection"
           THEN \E D \in SUBSET DevIds, drives \in BoundedSeq(DevIds, NumDevs) : DeviceSelectionScreen_init([d \in D |-> DevInfo(d)], drives)
           ELSE NoDeviceState

\* -------------------------------------------------------------- actions
\* Drawing (clear, draw_box, draw_centered_text, putstr_yx, render) writes
\* only to the terminal plane; it reads cursor, selection and devices and
\* assigns none of them, so an action below is the input half of a loop pass.
\* the user presses or releases a key; the terminal library queues the event
KeyArrive == /\ Len(pending) < MaxPending
             /\ \E ev \in Events : pending' = Append(pending, ev)
             /\ UNCHANGED <<screen, pc, result, key, selected, devices, selected_drives, cursor, device_list, run>>

\* one pass of a loop `key = self.wait_for_key()` followed by branches that
\* return r (NoResult: no branch returns, the loop goes round)
ReadAndBranch(k, r) == /\ key' = k
                       /\ pending' = Tail(pending)
                       /\ result' = r
                       /\ pc' = IF r = NoResult THEN "show" ELSE "done"

WelcomeBranch(k) == IF k \in {"\n", "\r", " "} THEN StrResult("next") ELSE IF lower(k) = "q" THEN StrResult("quit") ELSE NoResult

WelcomeScreen_show == /\ screen = "Welcome"
                      /\ pc = "show"
                      /\ pending # <<>>
                      /\ ReadAndBranch(wait_for_key(Head(pending)), WelcomeBranch(wait_for_key(Head(pending))))
                      /\ UNCHANGED <<screen, selected, devices, selected_drives, cursor, device_list, run>>

SettingsBranch(k) == IF k \in {"\n", "\r"} THEN StrResult("next") ELSE IF k = "escape" THEN StrResult("back") ELSE IF lower(k) = "q" THEN StrResult("quit") ELSE NoResult

SettingsScreen_show == /\ screen = "Settings"
                       /\ pc = "show"
                       /\ pending # <<>>
                       /\ ReadAndBranch(wait_for_key(Head(pending)), SettingsBranch(wait_for_key(Head(pending))))
                       /\ UNCHANGED <<screen, selected, devices, selected_drives, cursor, device_list, run>>

ValidationBranch(k) == IF k \in {"\n", "\r"} THEN StrResult("valid") ELSE IF k = "escape" THEN StrResult("back") ELSE IF lower(k) = "q" THEN StrResult("quit") ELSE NoResult

ValidationScreen_show == /\ screen = "Validation"
                         /\ pc = "show"
                         /\ pending # <<>>
                         /\ ReadAndBranch(wait_for_key(Head(pending)), ValidationBranch(wait_for_key(Head(pending))))
                         /\ UNCHANGED <<screen, selected, devices, selected_drives, cursor, device_list, run>>

ConfirmationBranch(k) == IF lower(k) = "y" THEN StrResult("proceed") ELSE IF lower(k) = "n" \/ k = "escape" THEN StrResult("back") ELSE IF lower(k) = "q" THEN StrResult("quit") ELSE NoResult

ConfirmationScreen_show == /\ screen = "Confirmation"
                           /\ pc = "show"
                           /\ pending # <<>>
                           /\ ReadAndBranch(wait_for_key(Head(pending)), ConfirmationBranch(wait_for_key(Head(pending))))
                           /\ UNCHANGED <<screen, selected, devices, selected_drives, cursor, device_list, run>>

\* self.wait_for_key(); return "quit"
CompletionScreen_show == /\ screen = "Completion"
                         /\ pc = "show"
                         /\ pending # <<>>
                         /\ pending' = Tail(pending)
                         /\ result' = StrResult("quit")
                         /\ pc' = "done"
                         /\ UNCHANGED <<screen, key, selected, devices, selected_drives, cursor, device_list, run>>

ModeSelectionScreen_show == /\ screen = "ModeSelection"
                            /\ pc = "show"
                            /\ pending # <<>>
                            /\ LET k == wait_for_key(Head(pending))
                                   out == ModeHandle(selected, k)
                               IN  /\ key' = k
                                   /\ pending' = Tail(pending)
                                   /\ selected' = out.selected
                                   /\ result' = out.ret
                                   /\ pc' = IF out.ret = NoResult THEN "show" ELSE "done"
                                   /\ run' = RunAfter(run, k, selected, {}, Len(modes))
                            /\ UNCHANGED <<screen, devices, selected_drives, cursor, device_list>>

DeviceSelectionScreen_show == /\ screen = "DeviceSelection"
                              /\ pc = "show"
                              /\ pending # <<>>
                              /\ LET k == wait_for_key(Head(pending))
                                     st == [cursor |-> cursor, selected_drives |-> selected_drives, devices |-> devices, device_list |-> device_list]
                                     out == DeviceHandle(st, k)
                                 IN  /\ key' = k
                                     /\ pending' = Tail(pending)
                                     /\ cursor' = out.cursor
                                     /\ selected_drives' = out.selected_drives
                                     /\ devices' = out.devices
                                     /\ device_list' = out.device_list
                                     /\ run' = RunAfter(run, k, cursor, selected_drives, Len(device_list))
                                     /\ pc' = IF out.ret = "none" THEN "show" ELSE "done"
                                     /\ IF out.ret = "drives"
                                        THEN \E l \in Orderings(out.selected_drives) : result' = ListResult(l)
                                        ELSE IF out.ret = "none" THEN result' = NoResult
                                        ELSE result' = StrResult(out.ret)
                              /\ UNCHANGED <<screen, selected>>

\* a simulated installation that polls the keyboard and lets q cancel it
InstallationScreen_sleep_cancellable == /\ screen = "Installation"
                                        /\ pc = "sleep"
                                        /\ pc' = "done"
                                        /\ IF pending # <<>>
                                           THEN /\ pending' = Tail(pending)
                                                /\ result' = IF lower(wait_for_key(Head(pending))) = "q" THEN StrResult("quit") ELSE StrResult("success")
                                           ELSE /\ pending' = pending
                                                /\ result' = StrResult("success")
                                        /\ UNCHANGED <<screen, key, selected, devices, selected_drives, cursor, device_list, run>>

\* clear, draw the two lines, render; then time.sleep(3) begins
InstallationScreen_render == /\ screen = "Installation"
                             /\ pc = "show"
                             /\ pc' = "sleep"
                             /\ UNCHANGED <<screen, result, key, pending, selected, devices, selected_drives, cursor, device_list, run>>

\* time.sleep(3) elapses; return "success"
InstallationScreen_sleep == /\ screen = "Installation"
                            /\ pc = "sleep"
                            /\ pc' = "done"
                            /\ result' = StrResult("success")
                            /\ UNCHANGED <<screen, key, pending, selected, devices, selected_drives, cursor, device_list, run>>

Next == \/ KeyArrive
        \/ WelcomeScreen_show
        \/ ModeSelectionScreen_show
        \/ DeviceSelectionScreen_show
        \/ SettingsScreen_show
        \/ ValidationScreen_show
        \/ ConfirmationScreen_show
        \/ InstallationScreen_render
        \/ InstallationScreen_sleep
        \/ CompletionScreen_show

Spec == Init /\ [][Next]_vars

\* time.sleep returns, so the installation screen's steps are always taken
FairSpec == Spec /\ WF_vars(InstallationScreen_render) /\ WF_vars(InstallationScreen_sleep)

TypeOK == /\ screen \in Screens
          /\ pc \in {"show", "sleep", "done"}
          /\ result.type \in {"none", "str", "list"}
          /\ key \in Keys \cup {"", Unset}
          /\ pending \in BoundedSeq(Events, MaxPending)
          /\ selected \in Int
          /\ cursor \in Int
          /\ selected_drives \subseteq DevIds
          /\ DOMAIN devices \subseteq DevIds

\* ------------------------------------------------------------ properties
\* a step in which show() took an event from the library
ReadStep == Len(pending') < Len(pending)

\* what wait_for_key returns in that step
ReadKey == wait_for_key(Head(pending))

Enter == {"\n", "\r"}

DownKeys == {"j", "down"}

UpKeys == {"k", "up"}

OnDevice == screen = "DeviceSelection"

OnMode == screen = "ModeSelection"

\* the list a screen navigates and the index it moves
NavLen == IF OnMode THEN Len(modes) ELSE Len(device_list)

NavPos == IF OnMode THEN selected ELSE cursor

IsPrefix(s, t) == Len(s) <= Len(t) /\ SubSeq(t, 1, Len(s)) = s

\* C1: in every reachable state of DeviceSelectionScreen, constructed with
\* any devices mapping and any selected_drives list, the selection set is a
\* subset of the known device identifiers (keys of devices / device_list).
C1_SelectionWithinDevices == OnDevice => (selected_drives \subseteq DOMAIN devices /\ selected_drives \subseteq set(device_list))

\* C2: an ENTER key received while selected_drives is empty does not make
\* show() return and leaves cursor and selected_drives unchanged; every
\* drive list show() returns is non-empty.
C2_ContinueBlocked == /\ [][(OnDevice /\ pc = "show" /\ ReadStep /\ ReadKey \in Enter /\ selected_drives = {}) => (pc' = "show" /\ result' = NoResult /\ cursor' = cursor /\ selected_drives' = selected_drives)]_vars
                      /\ []((OnDevice /\ result.type = "list") => result.list # <<>>)

\* ENTER was just handled with nothing selected and the screen still waits
C2_Witness == OnDevice /\ pc = "show" /\ key \in Enter /\ selected_drives = {} /\ device_list # <<>>

\* C3: ModeSelectionScreen.selected is in 0..len(modes)-1; the device
\* cursor is in 0..len(device_list)-1 when device_list is non-empty, and
\* stays 0 when it is empty.
C3_CursorInBounds == /\ OnMode => selected \in 0..(Len(modes) - 1)
                     /\ OnDevice => IF device_list # <<>> THEN cursor \in 0..(Len(device_list) - 1) ELSE cursor = 0

\* an up key was just handled on the first entry and wrapped to the last
C3_Witness == OnDevice /\ key \in UpKeys /\ run.kind = "up" /\ run.len = 1 /\ run.cursor = 0 /\ Len(device_list) >= 2 /\ cursor = Len(device_list) - 1

\* C4: down on the last entry moves to the first, up on the first entry
\* moves to the last, otherwise down/up move by +1/-1; n consecutive down
\* (or up) keys on a list of length n return the cursor to its start.
C4_NavigationWraps == /\ [][(((OnMode \/ OnDevice) /\ pc = "show" /\ ReadStep /\ NavLen > 0) => (/\ ReadKey \in DownKeys => NavPos' = (IF NavPos = NavLen - 1 THEN 0 ELSE NavPos + 1)
                                                                                                 /\ ReadKey \in UpKeys => NavPos' = (IF NavPos = 0 THEN NavLen - 1 ELSE NavPos - 1)))]_vars
                      /\ []((((OnMode \/ OnDevice) /\ run.kind \in {"down", "up"} /\ run.len = NavLen) => NavPos = run.cursor))

\* a full round of down keys on a device list of at least two entries
C4_Witness == OnDevice /\ run.kind = "down" /\ run.len = Len(device_list) /\ Len(device_list) >= 2 /\ key \in DownKeys

\* C5 as stated: a second SPACE press, the cursor unchanged, leaves
\* selected_drives equal to what it was after the first press.
C5_Idempotent == [][(OnDevice /\ pc = "show" /\ ReadStep /\ ReadKey = " " /\ run.kind = "space" /\ run.len = 1) => selected_drives' = selected_drives]_vars

\* C5 amended: a second SPACE press, the cursor unchanged, leaves
\* selected_drives equal to what it was before the first press.
C5_SecondPressRestores == (OnDevice /\ run.kind = "space" /\ run.len = 2) => (selected_drives = run.sel /\ cursor = run.cursor)

\* two SPACE presses in a row on a non-empty device list
C5_Witness == OnDevice /\ run.kind = "space" /\ run.len = 2 /\ device_list # <<>> /\ key = " "

\* C6 as stated: whenever a screen's show() has returned, the returned
\* value is a string.
C6_AlwaysString == pc = "done" => result.type = "str"

\* C6 amended: every show() returns a string, except that
\* DeviceSelectionScreen.show() returns the list of the selected drives
\* when ENTER is pressed with a non-empty selection.
C6_StringOrDriveList == pc = "done" => IF OnDevice /\ key \in Enter
                                       THEN result.type = "list" /\ set(result.list) = selected_drives /\ Len(result.list) = Cardinality(selected_drives)
                                       ELSE result.type = "str" /\ result.str \in {"next", "quit", "back", "new", "existing", "valid", "proceed", "success"}

\* the mode screen returned a mode identifier after moving the cursor
C6_Witness == OnMode /\ pc = "done" /\ key \in Enter /\ selected = 1 /\ result.str = "existing"

\* C7: InstallationScreen.show() terminates with "success" without reading
\* an input event: pending events stay queued and no key changes the result.
C7_InstallationUncancellable == /\ [][(screen = "Installation") => IsPrefix(pending, pending')]_vars
                                /\ []((screen = "Installation" /\ pc = "done") => result = StrResult("success"))
                                /\ <>((screen = "Installation") => pc = "done")

\* the installation has returned "success" with a q key still unread
C7_Witness == screen = "Installation" /\ pc = "done" /\ result = StrResult("success") /\ pending # <<>> /\ lower(wait_for_key(Head(pending))) = "q"

\* C8: a key-release event never makes a screen's show() return and never
\* changes a cursor or selection; the screen keeps waiting.
C8_ReleaseIgnored == [][(pc = "show" /\ ReadStep /\ Head(pending).is_release) => (pc' = "show" /\ result' = NoResult /\ selected' = selected /\ cursor' = cursor /\ selected_drives' = selected_drives)]_vars

\* C9: one SPACE press flips the membership of device_list[cursor] and of
\* no other device; a second one, the cursor unchanged, restores the set.
C9_ToggleInvolution == [][(OnDevice /\ pc = "show" /\ ReadStep /\ ReadKey = " " /\ device_list # <<>>) => (/\ (device_list[cursor + 1] \in selected_drives') <=> (device_list[cursor + 1] \notin selected_drives)
                                                                                                           /\ \A d \in (DevIds \ {device_list[cursor + 1]}) : (d \in selected_drives') <=> (d \in selected_drives)
                                                                                                           /\ (run.kind = "space" /\ run.len = 1) => (selected_drives' = run.sel /\ cursor' = run.cursor))]_vars

\* two SPACE presses on an entry other than the first, others selected
C9_Witness == OnDevice /\ key = " " /\ run.kind = "space" /\ run.len = 2 /\ cursor >= 1 /\ Cardinality(selected_drives) >= 2

\* C10: navigation keys leave selected_drives unchanged, SPACE leaves the
\* cursor unchanged, a key matching no branch leaves both unchanged, and
\* nothing changes devices or device_list.
C10_KeyFrame == [][/\ devices' = devices
                   /\ device_list' = device_list
                   /\ (OnDevice /\ pc = "show" /\ ReadStep) => (/\ ReadKey \in (DownKeys \cup UpKeys) => selected_drives' = selected_drives
                                                                /\ ReadKey = " " => cursor' = cursor
                                                                /\ (ReadKey \notin (Enter \cup {" ", "escape"} \cup DownKeys \cup UpKeys) /\ lower(ReadKey) # "q") => (cursor' = cursor /\ selected_drives' = selected_drives /\ pc' = "show"))]_vars

\* an unbound key was just handled away from the first entry with a selection
C10_Witness == OnDevice /\ pc = "show" /\ key = "x" /\ cursor >= 1 /\ selected_drives # {}

====
